---- MODULE Spec2Model ----
(***************************************************************************)
(* Model of the auction-notice extractor of catalogo.py: the Spanish       *)
(* numeral parser text_to_number, the amount extractor                     *)
(* extract_price_and_currency_robust and the field extractor               *)
(* parse_auction_entry.                                                    *)
(*                                                                         *)
(* Texts are TLA+ strings (sequences of characters); the regular           *)
(* expressions of the source are modelled character by character.          *)
(* A float price is the exact rational whole + q/400, kept as the record   *)
(* [whole, q] with q in 0..399, so that hundredths and the factors 0.75    *)
(* and 0.25 are exact.                                                     *)
(***************************************************************************)
EXTENDS Integers, Sequences, FiniteSets, TLC

VARIABLES
    call,       \* the function called, its argument and how it was drawn
    ret,        \* <<>> while the call runs, then the returned value
    pc,         \* position inside parse_auction_entry
    content,    \* entry['contenido']
    item_type,  \* 'propiedad' | 'vehiculo'
    price1,     \* base price of the first auction
    currency,   \* currency of the first auction
    remates,    \* list of rounds
    title, area, details,
    \* the generated page
    items,          \* the accordions of itemsContainer: type and text of each
    searchInput,    \* value of the search box
    currentPage,
    currentFilter,
    hidden,         \* indices of the items carrying the class 'hidden'
    filterActive,   \* labels of the filter buttons carrying 'active'
    pagination,     \* the controls injected into paginationControls
    uncaught,       \* an event handler ended by an uncaught TypeError
    event,          \* the last event handled
    accordion,      \* the observed accordion button carries 'active'
    panel,          \* its panel: class 'show' and style.maxHeight
    timers,         \* pending setTimeout callbacks, with the time left
    clicks          \* clicks on the observed accordion so far

pageVars == <<items, searchInput, currentPage, currentFilter, hidden,
              filterActive, pagination, uncaught, event>>

accVars == <<accordion, panel, timers, clicks>>

htmlVars == <<pageVars, accVars>>

vars == <<call, ret, pc, content, item_type, price1, currency, remates,
          title, area, details, htmlVars>>

\* no page is loaded
NoPage ==
    /\ items = <<>>
    /\ searchInput = ""
    /\ currentPage = 1
    /\ currentFilter = "all"
    /\ hidden = {}
    /\ filterActive = {}
    /\ pagination = <<>>
    /\ uncaught = FALSE
    /\ event = <<>>
    /\ accordion = FALSE
    /\ panel = [show |-> FALSE, maxHeight |-> FALSE]
    /\ timers = <<>>
    /\ clicks = 0

parseVars == <<pc, content, item_type, price1, currency, remates,
               title, area, details>>

----------------------------------------------------------------------------
(* Bounds *)

MaxId == 2

\* the largest catalogue of the page
MaxItems == 75

\* the largest catalogue searched
MaxSearched == 25

\* pages below 1 the previous-page button is followed to
MaxBelow == 1

\* clicks on one accordion
MaxClicks == 3

----------------------------------------------------------------------------
(* Python string primitives used by the source.  A value that is used    *)
(* several times is passed as the parameter of a helper operator.         *)

Min(S) == CHOOSE x \in S : \A y \in S : x <= y

\* the least index of a set of indices, 0 for the empty set
first_index(hits) == IF hits = {} THEN 0 ELSE Min(hits)

\* lit occurs in s at index i (its first two characters are compared first)
At(s, i, lit) ==
    /\ i + Len(lit) - 1 <= Len(s)
    /\ Len(lit) < 1 \/ SubSeq(s, i, i) = SubSeq(lit, 1, 1)
    /\ Len(lit) < 2 \/ SubSeq(s, i + 1, i + 1) = SubSeq(lit, 2, 2)
    /\ SubSeq(s, i, i + Len(lit) - 1) = lit

\* str.find(lit, from): least index >= from where lit occurs, 0 if none
str_find(s, lit, from) ==
    first_index({i \in from..(Len(s) - Len(lit) + 1) : At(s, i, lit)})

\* `lit in s`
str_in(lit, s) == str_find(s, lit, 1) # 0

LowerLetters == "abcdefghijklmnopqrstuvwxyzáéíóúñü"
UpperLetters == "ABCDEFGHIJKLMNOPQRSTUVWXYZÁÉÍÓÚÑÜ"

\* the upper-case letter of each lower-case letter
UpperOf ==
    ("a" :> "A") @@ ("b" :> "B") @@ ("c" :> "C") @@ ("d" :> "D") @@
    ("e" :> "E") @@ ("f" :> "F") @@ ("g" :> "G") @@ ("h" :> "H") @@
    ("i" :> "I") @@ ("j" :> "J") @@ ("k" :> "K") @@ ("l" :> "L") @@
    ("m" :> "M") @@ ("n" :> "N") @@ ("o" :> "O") @@ ("p" :> "P") @@
    ("q" :> "Q") @@ ("r" :> "R") @@ ("s" :> "S") @@ ("t" :> "T") @@
    ("u" :> "U") @@ ("v" :> "V") @@ ("w" :> "W") @@ ("x" :> "X") @@
    ("y" :> "Y") @@ ("z" :> "Z") @@ ("á" :> "Á") @@ ("é" :> "É") @@
    ("í" :> "Í") @@ ("ó" :> "Ó") @@ ("ú" :> "Ú") @@ ("ñ" :> "Ñ") @@
    ("ü" :> "Ü")

LowerSet == DOMAIN UpperOf

upper_char(c) == IF c \in LowerSet THEN UpperOf[c] ELSE c

\* str.upper(), character by character (halving keeps the recursion shallow)
RECURSIVE str_upper(_)
str_upper(s) ==
    IF Len(s) = 0 THEN ""
    ELSE IF Len(s) = 1 THEN upper_char(s)
    ELSE str_upper(SubSeq(s, 1, Len(s) \div 2))
         \o str_upper(SubSeq(s, Len(s) \div 2 + 1, Len(s)))

RECURSIVE str_replace(_, _, _)

\* s with old replaced from its first occurrence k on (k = 0: none)
replace_from(s, k, old, new) ==
    IF k = 0 THEN s
    ELSE SubSeq(s, 1, k - 1) \o new
         \o str_replace(SubSeq(s, k + Len(old), Len(s)), old, new)

\* str.replace(old, new): non-overlapping, left to right
str_replace(s, old, new) == replace_from(s, str_find(s, old, 1), old, new)

\* str.strip() (the only whitespace of a normalised notice is the space)
RECURSIVE str_strip(_)
str_strip(s) ==
    IF s = "" THEN ""
    ELSE IF SubSeq(s, 1, 1) = " " THEN str_strip(SubSeq(s, 2, Len(s)))
    ELSE IF SubSeq(s, Len(s), Len(s)) = " "
         THEN str_strip(SubSeq(s, 1, Len(s) - 1))
    ELSE s

RECURSIVE str_split(_)

\* the words of the stripped text t, whose first space is at k (0: none)
split_at(t, k) ==
    IF t = "" THEN <<>>
    ELSE IF k = 0 THEN <<t>>
    ELSE <<SubSeq(t, 1, k - 1)>> \o str_split(SubSeq(t, k, Len(t)))

\* the words of the stripped text t
split_stripped(t) == split_at(t, str_find(t, " ", 1))

\* str.split(): the maximal runs of non-space characters
str_split(s) == split_stripped(str_strip(s))

\* of the hit of lit at p and the hit r = <<position, literal>> the one
\* further left (position 0: no hit; lit on a tie)
earlier(p, lit, r) ==
    IF p # 0 /\ (r[1] = 0 \/ p <= r[1]) THEN <<p, lit>> ELSE r

----------------------------------------------------------------------------
(* 1. SPANISH TEXT TO NUMBER CONVERTER *)

\* the words removed by re.sub at line 26, in the order of the alternation
currency_words ==
    <<"DÓLARES", "DOLARES", "COLONES", "EXACTOS", "CENTAVOS", "CÉNTIMOS">>

\* position and word of the leftmost currency word of s, <<0, "">> if none
RECURSIVE first_currency_word(_, _)
first_currency_word(s, words) ==
    IF words = <<>> THEN <<0, "">>
    ELSE earlier(str_find(s, Head(words), 1), Head(words),
                 first_currency_word(s, Tail(words)))

RECURSIVE re_sub_currency(_)

\* s without the currency word f = <<position, word>> and the later ones
cut_word(s, f) ==
    IF f[1] = 0 THEN s
    ELSE SubSeq(s, 1, f[1] - 1)
         \o re_sub_currency(SubSeq(s, f[1] + Len(f[2]), Len(s)))

\* re.sub(r'DÓLARES|DOLARES|COLONES|EXACTOS|CENTAVOS|CÉNTIMOS', '', text):
\* the leftmost occurrence of a word is cut, then the rest is scanned
re_sub_currency(s) == cut_word(s, first_currency_word(s, currency_words))

values ==
    { <<"UN", 1>>, <<"UNO", 1>>, <<"UNA", 1>>, <<"DOS", 2>>, <<"TRES", 3>>,
      <<"CUATRO", 4>>, <<"CINCO", 5>>,
      <<"SEIS", 6>>, <<"SIETE", 7>>, <<"OCHO", 8>>, <<"NUEVE", 9>>,
      <<"DIEZ", 10>>,
      <<"ONCE", 11>>, <<"DOCE", 12>>, <<"TRECE", 13>>, <<"CATORCE", 14>>,
      <<"QUINCE", 15>>,
      <<"DIECISEIS", 16>>, <<"DIECISÉIS", 16>>, <<"DIECISIETE", 17>>,
      <<"DIECIOCHO", 18>>, <<"DIECINUEVE", 19>>,
      <<"VEINTE", 20>>, <<"VEINTI", 20>>, <<"VEINTIUN", 21>>,
      <<"VEINTIÚN", 21>>, <<"VEINTIDOS", 22>>, <<"VEINTIDÓS", 22>>,
      <<"VEINTITRES", 23>>, <<"VEINTITRÉS", 23>>, <<"VEINTICUATRO", 24>>,
      <<"VEINTICINCO", 25>>, <<"VEINTISEIS", 26>>, <<"VEINTISÉIS", 26>>,
      <<"VEINTISIETE", 27>>, <<"VEINTIOCHO", 28>>, <<"VEINTINUEVE", 29>>,
      <<"TREINTA", 30>>, <<"CUARENTA", 40>>, <<"CINCUENTA", 50>>,
      <<"SESENTA", 60>>, <<"SETENTA", 70>>, <<"OCHENTA", 80>>,
      <<"NOVENTA", 90>>,
      <<"CIEN", 100>>, <<"CIENTO", 100>>, <<"DOSCIENTOS", 200>>,
      <<"TRESCIENTOS", 300>>, <<"CUATROCIENTOS", 400>>,
      <<"QUINIENTOS", 500>>,
      <<"SEISCIENTOS", 600>>, <<"SETECIENTOS", 700>>,
      <<"OCHOCIENTOS", 800>>, <<"NOVECIENTOS", 900>>,
      <<"MIL", 1000>>, <<"MILLON", 1000000>>, <<"MILLONES", 1000000>> }

\* the value of the lexicon entries for token (at most one entry)
value_of(entries) == IF entries = {} THEN 0 ELSE (CHOOSE p \in entries : TRUE)[2]

\* values.get(token, 0)
values_get(token) == value_of({p \in values : p[1] = token})

\* lines 54 and 59: an empty group counts as one
group(current_value) == IF current_value = 0 THEN 1 ELSE current_value

\* the loop body with an empty group before MIL counted as zero
loop_body_noelision(total_value, current_value, val) ==
    IF val = 1000
    THEN <<total_value + current_value * 1000, 0>>
    ELSE IF val >= 1000000
    THEN <<total_value + group(current_value) * val, 0>>
    ELSE <<total_value, current_value + val>>

\* lines 53-64 for a token of value val: <<total_value, current_value>>
loop_body(total_value, current_value, val) ==
    IF val = 1000
    THEN <<total_value + group(current_value) * 1000, 0>>
    ELSE IF val >= 1000000
    THEN <<total_value + group(current_value) * val, 0>>
    ELSE <<total_value, current_value + val>>

\* the loop of lines 50-64 from token i on, followed by line 66;
\* acc is <<total_value, current_value>>
RECURSIVE accumulate(_, _, _)
accumulate(tokens, i, acc) ==
    IF i > Len(tokens) THEN acc[1] + acc[2]
    ELSE accumulate(tokens, i + 1,
                    loop_body(acc[1], acc[2], values_get(tokens[i])))

\* line 18
normalise(text) ==
    str_replace(str_replace(str_upper(text), " Y ", " "), " CON ", " ")

\* detect_currency knowing only the accented keyword
detect_currency_accented(text) ==
    IF str_in("DÓLARES", text) THEN "USD" ELSE "CRC"

\* lines 21-23
detect_currency(text) ==
    IF str_in("DÓLARES", text) \/ str_in("DOLARES", text)
    THEN "USD" ELSE "CRC"

\* lines 21-74 on the text of line 18
number_and_currency(text) ==
    <<accumulate(str_split(str_strip(re_sub_currency(text))), 1, <<0, 0>>),
      detect_currency(text)>>

text_to_number(text) == number_and_currency(normalise(text))

----------------------------------------------------------------------------
(* Regular-expression searches of the source.  Every pattern used is a    *)
(* chain of literals joined by lazy wildcards, so the leftmost match takes *)
(* each literal at its first occurrence after the previous one.            *)

\* LIT (in upper case) occurs in s at index i, whatever the letter case
\* (its first two characters are compared first)
At_ci(s, i, LIT) ==
    /\ upper_char(SubSeq(s, i, i)) = SubSeq(LIT, 1, 1)
    /\ Len(LIT) < 2 \/ upper_char(SubSeq(s, i + 1, i + 1)) = SubSeq(LIT, 2, 2)
    /\ str_upper(SubSeq(s, i, i + Len(LIT) - 1)) = LIT

\* case-insensitive literal search (re.IGNORECASE); LIT is in upper case
str_find_ci(s, LIT, from) ==
    first_index({i \in from..(Len(s) - Len(LIT) + 1) : At_ci(s, i, LIT)})

\* the literal search of a pattern, with or without re.IGNORECASE
find(s, lit, from, ci) ==
    IF ci THEN str_find_ci(s, lit, from) ELSE str_find(s, lit, from)

\* first position >= from where one of the alternatives occurs (the earlier
\* alternative on a tie): <<position, alternative>>, or <<0, "">>
RECURSIVE first_alt(_, _, _, _)
first_alt(s, from, alts, ci) ==
    IF alts = <<>> THEN <<0, "">>
    ELSE earlier(find(s, Head(alts), from, ci), Head(alts),
                 first_alt(s, from, Tail(alts), ci))

\* a search without a match
NoMatch == [ok |-> FALSE, g1 |-> "", g2 |-> ""]

\* the match of  head (.*?) tail  with the head at h and the tail at t:
\* group 1 and the tail as matched
match_between(s, h, t) ==
    IF t[1] = 0 THEN NoMatch
    ELSE [ok |-> TRUE,
          g1 |-> SubSeq(s, h[1] + Len(h[2]), t[1] - 1),
          g2 |-> SubSeq(s, t[1], t[1] + Len(t[2]) - 1)]

\* the match with the head at h: the first tail after it
match_after(s, h, tails, ci) ==
    IF h[1] = 0 THEN NoMatch
    ELSE match_between(s, h, first_alt(s, h[1] + Len(h[2]), tails, ci))

\* re.search of  head (.*?) tail1|tail2|... : the record of the match
re_search(s, head, tails, ci) ==
    match_after(s, first_alt(s, 1, head, ci), tails, ci)

\* group(1) of a match, or the default
group1_or(m, default) == IF m.ok THEN m.g1 ELSE default

RECURSIVE re_chain(_, _, _, _)

\* the chain whose first part is at f, followed by the parts of rest
chain_after(s, f, rest, ci) ==
    IF f[1] = 0 THEN <<f>>
    ELSE <<f>> \o re_chain(s, f[1] + Len(f[2]), rest, ci)

\* re.search of  part1 .*? part2 .*? ... : <<position, literal>> of each
\* part, the first failing part being <<0, "">>
re_chain(s, from, parts, ci) ==
    IF parts = <<>> THEN <<>>
    ELSE chain_after(s, first_alt(s, from, Head(parts), ci), Tail(parts), ci)

chain_ok(m) == m[Len(m)][1] # 0

\* match.group(0) of a chain
chain_group0(s, m) == SubSeq(s, m[1][1], m[Len(m)][1] + Len(m[Len(m)][2]) - 1)

----------------------------------------------------------------------------
(* Float prices as exact rationals whole + q/400 *)

\* val + (cents / 100.0), line 94
float_add_cents(val, cents) ==
    [whole |-> val + cents \div 100, q |-> (cents % 100) * 4]

\* the product with the whole part only
float_mul_quarters_whole(p, n) ==
    [whole |-> (p.whole * n) \div 4, q |-> 0]

\* price * 0.75 (n = 3) and price * 0.25 (n = 1), lines 150 and 168:
\* the whole part of the product, then the fraction in 1/400
float_mul_quarters(p, n) ==
    [whole |-> (p.whole * n) \div 4
               + (((p.whole * n) % 4) * 100 + (p.q * n) \div 4) \div 400,
     q |-> (((p.whole * n) % 4) * 100 + (p.q * n) \div 4) % 400]

Zero == [whole |-> 0, q |-> 0]

----------------------------------------------------------------------------
(* extract_price_and_currency_robust *)

\* line 81: re.search(r'base de (.*?) (COLONES|DÓLARES|DOLARES)', ..., re.I)
base_match(text_segment) ==
    re_search(text_segment, <<"BASE DE ">>,
              <<" COLONES", " DÓLARES", " DOLARES">>, TRUE)

\* line 85: re.search(r'CON (.*?) (CENTAVOS|CÉNTIMOS)', text_segment, re.I)
cents_match(text_segment) ==
    re_search(text_segment, <<"CON ">>, <<" CENTAVOS", " CÉNTIMOS">>, TRUE)

\* lines 89-92
cents_of(cm) == IF cm.ok THEN text_to_number(cm.g1)[1] ELSE 0

\* lines 94-95 for val, curr = vc
final_val(vc, cents) == <<float_add_cents(vc[1], cents), vc[2]>>

\* lines 82-96 for the matches of lines 81 and 85; g2 holds the space and
\* match.group(2): amount_text + (" " + match.group(2))
price_and_currency(match, cm) ==
    IF match.ok
    THEN final_val(text_to_number(match.g1 \o match.g2), cents_of(cm))
    ELSE <<Zero, "CRC">>

extract_price_and_currency_robust(text_segment) ==
    price_and_currency(base_match(text_segment), cents_match(text_segment))

----------------------------------------------------------------------------
(* 2. PARSING LOGIC: parse_auction_entry, one action per numbered section *)

WordChars == LowerLetters \o UpperLetters \o "0123456789_"

\* \w
is_word_char(c) == str_in(c, WordChars)

\* \b before index i and before index j of s
word_bounds(s, i, j) ==
    /\ i = 1 \/ ~is_word_char(SubSeq(s, i - 1, i - 1))
    /\ j > Len(s) \/ ~is_word_char(SubSeq(s, j, j))

\* the search without the \b word boundaries
word_search_unbounded(s, WORD) ==
    \E i \in 1..(Len(s) - Len(WORD) + 1) : At_ci(s, i, WORD)

\* re.search(r'\bWORD\b', s, re.IGNORECASE); WORD is in upper case
word_search(s, WORD) ==
    \E i \in 1..(Len(s) - Len(WORD) + 1) :
        At_ci(s, i, WORD) /\ word_bounds(s, i, i + Len(WORD))

\* line 107, first search
property_search(s) ==
    \E W \in {"FINCA", "TERRENO", "LOTE", "PROPIEDAD"} : word_search(s, W)

\* line 107, second search
vehicle_search(s) ==
    \E W \in {"VEHÍCULO", "CARRO", "MOTO", "CHASIS"} : word_search(s, W)

\* a slice of a tenth of the length
str_prefix_tenth(s, n) ==
    SubSeq(s, 1, IF Len(s) < n \div 10 THEN Len(s) ELSE n \div 10)

\* content[:n]
str_prefix(s, n) == SubSeq(s, 1, IF Len(s) < n THEN Len(s) ELSE n)

\* line 124
date1_match(s) ==
    re_chain(s, 1, << <<"señalan las ">>, <<" del ">>, <<" de dos mil ">>,
                      <<".">> >>, FALSE)

\* line 125 and the default of line 119, for the match m of line 124
date1(s, m) ==
    IF chain_ok(m)
    THEN str_replace(chain_group0(s, m), "señalan las ", "")
    ELSE "No indicado"

\* the second-round anchor searched without regard to letter case
match_2nd_ignorecase(s) ==
    re_search(s, <<"SEGUNDO REMATE SE EFECTUARÁ ">>, <<" (75%">>, TRUE)

\* line 135
match_2nd(s) ==
    re_search(s, <<"segundo remate se efectuará ">>, <<" (75%">>, FALSE)

\* line 139
d2_match(seg_text) ==
    re_chain(seg_text, 1, << <<"a las ">>, <<" dos mil ">>, <<" con">> >>,
             FALSE)

\* line 140 and the default of line 138, for the match d2 of line 139
date2(seg_text, d2) ==
    IF chain_ok(d2)
    THEN str_replace(str_replace(chain_group0(seg_text, d2), "a las ", ""),
                     "con", "")
    ELSE "No indicado"

\* line 143: re.search(r'base de (.*)', seg_text)
p2_text(seg_text) == str_in("base de ", seg_text)

\* lines 144-150
price2(seg_text, price) ==
    IF p2_text(seg_text) THEN float_mul_quarters(price, 3) ELSE Zero

\* the third-round anchor with any form of the verb
match_3rd_anyverb(s) ==
    re_search(s, <<"tercer remate se señal">>, <<" (25%">>, FALSE)

\* line 160
match_3rd(s) ==
    re_search(s, <<"tercer remate se señalan ">>, <<" (25%">>, FALSE)

\* line 164
d3_match(ter_text) ==
    re_chain(ter_text, 1, << <<" las ">>, <<" dos mil ">>, <<" con">> >>,
             FALSE)

\* line 165 and the default of line 163, for the match d3 of line 164
date3(ter_text, d3) ==
    IF chain_ok(d3)
    THEN str_replace(str_replace(chain_group0(ter_text, d3), " las ", ""),
                     "con", "")
    ELSE "No indicado"

Round(label, price, date, cur) ==
    [label |-> label, price |-> price, date |-> date, currency |-> cur]

\* lines 128-132 for price1, currency = pcur
first_round(s, pcur) ==
    <<Round("Primer Remate", pcur[1], date1(s, date1_match(s)), pcur[2])>>

\* the second round with the currency its own clause names
second_round_own_currency(m, price, cur) ==
    IF m.ok
    THEN <<Round("Segundo Remate", price2(m.g1, price),
                 date2(m.g1, d2_match(m.g1)),
                 detect_currency(str_upper(m.g1)))>>
    ELSE <<>>

\* lines 136-157 for the match of line 135: the rounds appended
second_round(m, price, cur) ==
    IF m.ok
    THEN <<Round("Segundo Remate", price2(m.g1, price),
                 date2(m.g1, d2_match(m.g1)), cur)>>
    ELSE <<>>

\* lines 161-175 for the match of line 160: the rounds appended
third_round(m, price, cur) ==
    IF m.ok
    THEN <<Round("Tercer Remate", float_mul_quarters(price, 1),
                 date3(m.g1, d3_match(m.g1)), cur)>>
    ELSE <<>>

\* the content read without its surrounding spaces
ReadContentStripped ==
    /\ pc = "start"
    /\ content' = str_strip(call.arg.contenido)
    /\ pc' = "type"
    /\ UNCHANGED <<call, ret, item_type, price1, currency, remates,
                   title, area, details>>
    /\ UNCHANGED htmlVars

\* line 103
ReadContent ==
    /\ pc = "start"
    /\ content' = call.arg.contenido
    /\ pc' = "type"
    /\ UNCHANGED <<call, ret, item_type, price1, currency, remates,
                   title, area, details>>
    /\ UNCHANGED htmlVars

\* lines 105-110
DetermineType ==
    /\ pc = "type"
    /\ item_type' = IF property_search(content) /\ ~vehicle_search(content)
                    THEN "propiedad" ELSE "vehiculo"
    /\ pc' = "first"
    /\ UNCHANGED <<call, ret, content, price1, currency, remates,
                   title, area, details>>
    /\ UNCHANGED htmlVars

\* the first auction priced from the whole text
FirstAuctionWholeText ==
    /\ pc = "first"
    /\ \E pcur \in {extract_price_and_currency_robust(content)} :
           /\ price1' = pcur[1]
           /\ currency' = pcur[2]
           /\ remates' = first_round(content, pcur)
    /\ pc' = "second"
    /\ UNCHANGED <<call, ret, content, item_type, title, area, details>>
    /\ UNCHANGED htmlVars

\* lines 118-132
FirstAuction ==
    /\ pc = "first"
    /\ \E pcur \in {extract_price_and_currency_robust(str_prefix(content, 300))} :
           /\ price1' = pcur[1]
           /\ currency' = pcur[2]
           /\ remates' = first_round(content, pcur)
    /\ pc' = "second"
    /\ UNCHANGED <<call, ret, content, item_type, title, area, details>>
    /\ UNCHANGED htmlVars

\* lines 134-157
SecondAuction ==
    /\ pc = "second"
    /\ remates' = remates \o second_round(match_2nd(content), price1, currency)
    /\ pc' = "third"
    /\ UNCHANGED <<call, ret, content, item_type, price1, currency,
                   title, area, details>>
    /\ UNCHANGED htmlVars

\* lines 159-175
ThirdAuction ==
    /\ pc = "third"
    /\ remates' = remates \o third_round(match_3rd(content), price1, currency)
    /\ pc' = "specs"
    /\ UNCHANGED <<call, ret, content, item_type, price1, currency,
                   title, area, details>>
    /\ UNCHANGED htmlVars

\* the separators of the vehicle fields
sep == <<",", ".">>

\* group(1) of the search of  head (.*?) tails  in s, or the default
field(s, head, tails, ci, default) ==
    group1_or(re_search(s, head, tails, ci), default)

\* the matched phrase shown as it is
area_of_raw(area_match) ==
    IF area_match.ok THEN area_match.g1 \o " m²" ELSE "--"

\* lines 186-195 for the match of line 185
area_of(area_match) ==
    IF area_match.ok
    THEN ToString(text_to_number(area_match.g1)[1]) \o " m²"
    ELSE "--"

\* the area shown only for a phrase that has a positive number
property_area_positive(s) ==
    IF area_of(re_search(s, <<"MIDE: ">>, <<".", "PLANO">>, FALSE)) = "0 m²"
    THEN "Ver detalle"
    ELSE area_of(re_search(s, <<"MIDE: ">>, <<".", "PLANO">>, FALSE))

\* lines 184-195
property_area(s) ==
    area_of(re_search(s, <<"MIDE: ">>, <<".", "PLANO">>, FALSE))

\* lines 200-203 for the match of line 199
title_of(loc_match) ==
    IF loc_match.ok THEN str_strip(loc_match.g1)
    ELSE "Propiedad Sin Ubicación Identificada"

\* lines 198-203
property_title(s) ==
    title_of(re_search(s, <<"SITUADA EN ">>, <<", DE LA PROVINCIA", ".">>,
                       TRUE))

\* the details holding a key only for a field that matched
property_details_matched_only(s) ==
    [k \in {key \in {"Naturaleza", "Colindantes"} :
                (key = "Naturaleza"
                    /\ re_search(s, <<"es ">>, <<" Situada">>, FALSE).ok)
                \/ (key = "Colindantes"
                    /\ re_search(s, <<"COLINDA: ">>, <<" MIDE">>, FALSE).ok)}
        |-> IF k = "Naturaleza"
            THEN field(s, <<"es ">>, <<" Situada">>, FALSE, "")
            ELSE field(s, <<"COLINDA: ">>, <<" MIDE">>, FALSE, "")]

\* lines 206-207
property_details(s) ==
    ("Naturaleza" :> field(s, <<"es ">>, <<" Situada">>, FALSE, ""))
    @@ ("Colindantes" :> field(s, <<"COLINDA: ">>, <<" MIDE">>, FALSE, ""))

\* line 217 for the match of line 213
a_str(anio) == IF anio.ok THEN "(" \o anio.g1 \o ")" ELSE ""

\* lines 211-219
vehicle_title(s) ==
    str_strip(field(s, <<"Marca: ", "Marca ">>, sep, FALSE, "Vehículo")
              \o " " \o field(s, <<"Estilo: ", "Estilo ">>, sep, FALSE, "")
              \o " " \o a_str(re_search(s, <<"Año: ", "Año ">>, sep, FALSE)))

\* lines 222-223
vehicle_details(s) ==
    ("Placa" :> field(s, <<"Placa ", "placas ">>, <<",">>, FALSE, ""))
    @@ ("Motor" :> field(s, <<"Motor: ", "Motor ">>, sep, FALSE, ""))

\* lines 177-223
TitleAndSpecs ==
    /\ pc = "specs"
    /\ title' = IF item_type = "propiedad" THEN property_title(content)
                ELSE vehicle_title(content)
    /\ area' = IF item_type = "propiedad" THEN property_area(content)
               ELSE "--"
    /\ details' = IF item_type = "propiedad" THEN property_details(content)
                  ELSE vehicle_details(content)
    /\ pc' = "legal"
    /\ UNCHANGED <<call, ret, content, item_type, price1, currency, remates>>
    /\ UNCHANGED htmlVars

\* the end of group 1 of line 227: the first of ' .' at dot and the final
\* space at eos (0: absent)
first_stop(dot, eos) ==
    IF dot = 0 THEN eos
    ELSE IF eos = 0 THEN dot
    ELSE IF dot < eos THEN dot ELSE eos

\* the final space of s when it is at or after g, else 0
final_space(s, g) ==
    IF Len(s) >= g /\ SubSeq(s, Len(s), Len(s)) = " " THEN Len(s) ELSE 0

\* group 1 from g to stop
juzgado_group(s, g, stop) == IF stop = 0 THEN "" ELSE SubSeq(s, g, stop - 1)

\* the match with 'JUZGADO ' at h
juzgado_after(s, h, g) ==
    IF h = 0 THEN ""
    ELSE juzgado_group(s, g, first_stop(str_find(s, " .", g),
                                        final_space(s, g)))

\* the match with 'JUZGADO ' at h
juzgado_at(s, h) == juzgado_after(s, h, h + Len("JUZGADO "))

\* line 227: re.search(r'JUZGADO (.*?)( \.| $)', content)
juzgado(s) == juzgado_at(s, str_find(s, "JUZGADO ", 1))

\* lines 225-229
LegalInfo ==
    /\ pc = "legal"
    /\ details' =
          details
          @@ ("Expediente" :> field(content, <<"EXP:">>, <<"JUZGADO", " ">>,
                                    FALSE, ""))
          @@ ("Juzgado" :> juzgado(content))
          @@ ("Demandante" :> field(content, <<" de ">>, <<" contra ">>,
                                    FALSE, ""))
          @@ ("Demandado" :> field(content, <<" contra ">>, <<" EXP">>,
                                   FALSE, ""))
    /\ pc' = "return"
    /\ UNCHANGED <<call, ret, content, item_type, price1, currency, remates,
                   title, area>>
    /\ UNCHANGED htmlVars

\* lines 231-239
Return ==
    /\ pc = "return"
    /\ ret' = <<[id |-> call.arg.id, type |-> item_type, title |-> title,
                 area |-> area, remates |-> remates, details |-> details,
                 raw |-> content]>>
    /\ pc' = "done"
    /\ UNCHANGED <<call, content, item_type, price1, currency, remates,
                   title, area, details>>
    /\ UNCHANGED htmlVars

----------------------------------------------------------------------------
(* Inputs of the unit-level specification *)

\* Spanish spelling of 1..29, of the tens and of the hundreds
Units == <<"UN", "DOS", "TRES", "CUATRO", "CINCO", "SEIS", "SIETE", "OCHO",
           "NUEVE", "DIEZ", "ONCE", "DOCE", "TRECE", "CATORCE", "QUINCE",
           "DIECISÉIS", "DIECISIETE", "DIECIOCHO", "DIECINUEVE", "VEINTE",
           "VEINTIÚN", "VEINTIDÓS", "VEINTITRÉS", "VEINTICUATRO",
           "VEINTICINCO", "VEINTISÉIS", "VEINTISIETE", "VEINTIOCHO",
           "VEINTINUEVE">>
UnitsPlain == [Units EXCEPT ![16] = "DIECISEIS", ![21] = "VEINTIUN",
                            ![22] = "VEINTIDOS", ![23] = "VEINTITRES",
                            ![26] = "VEINTISEIS"]
Tens == <<"", "", "TREINTA", "CUARENTA", "CINCUENTA", "SESENTA", "SETENTA",
          "OCHENTA", "NOVENTA">>
Hundreds == <<"CIENTO", "DOSCIENTOS", "TRESCIENTOS", "CUATROCIENTOS",
              "QUINIENTOS", "SEISCIENTOS", "SETECIENTOS", "OCHOCIENTOS",
              "NOVECIENTOS">>
Styles == {"accented", "plain", "split"}

\* join two phrases with one space, either may be empty
Join(a, b) == IF a = "" THEN b ELSE IF b = "" THEN a ELSE a \o " " \o b

\* n in 1..99 in words
SpellBelow100(n, style) ==
    IF n < 21 \/ (n < 30 /\ style # "split")
    THEN (IF style = "plain" THEN UnitsPlain ELSE Units)[n]
    ELSE IF n < 30 THEN "VEINTI " \o Units[n - 20]
    ELSE IF n % 10 = 0 THEN Tens[n \div 10]
    ELSE Tens[n \div 10] \o " Y " \o Units[n % 10]

\* n in 0..999 in words ("" for 0)
Spell(n, style) ==
    IF n = 0 THEN ""
    ELSE IF n = 100 THEN "CIEN"
    ELSE Join(IF n >= 100 THEN Hundreds[n \div 100] ELSE "",
              IF n % 100 = 0 THEN "" ELSE SpellBelow100(n % 100, style))

\* the phrase [A MILLONES] [B MIL] [C]; elide drops B = 1 before MIL
FormPhrase(a, b, c, style, elide) ==
    Join(IF a = 0 THEN "" ELSE Spell(a, style) \o " MILLONES",
         Join(IF b = 0 THEN ""
              ELSE IF b = 1 /\ elide THEN "MIL"
              ELSE Spell(b, style) \o " MIL",
              Spell(c, style)))

GroupSample == {0, 1, 8, 27, 36, 127, 450, 999}

\* <<a, b, c, style, elide>>
FormCases ==
    ({<<a, b, c, "accented", TRUE>> :
        a \in GroupSample, b \in GroupSample, c \in GroupSample})
    \cup {<<0, 0, n, "accented", FALSE>> : n \in 1..999}
    \cup {<<0, 0, n, st, FALSE>> : n \in 1..99, st \in Styles}
    \cup {<<n, 0, 0, st, FALSE>> : n \in 1..99, st \in Styles}
    \cup {<<0, n, 0, st, FALSE>> : n \in 1..99, st \in Styles}
    \cup {<<7, 1, 27, st, FALSE>> : st \in Styles}

\* amount phrases with the number they denote
Amounts ==
    { <<"MIL", 1000>>, <<"UN MILLON", 1000000>>, <<"UN MILLÓN", 1000000>>,
      <<"OCHO MIL CIENTO VEINTISIETE", 8127>>,
      <<"TREINTA Y SEIS MILLONES OCHOCIENTOS MIL", 36800000>>,
      <<"siete millones", 7000000>>, <<"VEINTISIETE", 27>>, <<"CIEN", 100>> }

\* cents phrases with the number they denote ("" for no cents clause)
CentsPhrases == { <<"", 0>>, <<"VEINTIÚN", 21>>, <<"CINCUENTA Y CINCO", 55>> }
CentsWords == {"CENTAVOS", "CÉNTIMOS", "céntimos"}

\* the currency keyword after the amount, qualifiers included
Keywords == {"COLONES", "COLONES EXACTOS", "colones", "DÓLARES", "DOLARES",
             "dólares", "Dolares", "DÓLARES EXACTOS"}
DollarKeywords == {"DÓLARES", "DOLARES"}

\* what precedes the amount in a segment
Openings == {"", "Con una ", "En este Despacho Con una ", "con la ",
             "Se remata con la "}

\* an amount that names dollars before its closing keyword
DollarLedAmount == "DÓLARES OCHO MIL, equivalentes a CUATRO MILLONES DE"

CentsClause(y, cw) == IF y = "" THEN "" ELSE " CON " \o y \o " " \o cw

\* <<opening, amount, keyword, cents, cents word>>
SegmentText(o, x, kw, y, cw) ==
    o \o "base de " \o x \o " " \o kw \o CentsClause(y, cw)
    \o ", libre de gravámenes"

\* text_to_number inputs: <<"phrase", text>> and <<"form", a, b, c, style, elide>>
PhraseCases ==
    {<<"phrase", Join(x[1], t)>> :
        x \in Amounts,
        t \in Keywords \cup {"", "DE COLONES", "de dólares", "DÓLAR",
                             "PETRODOLARES", "DÓLARES CON VEINTIÚN CENTAVOS"}}
    \cup {<<"phrase", t>> : t \in {"", "Dólares", "sin número"}}

SegAmounts ==
    { <<"MIL", 1000>>, <<"OCHO MIL CIENTO VEINTISIETE", 8127>>,
      <<"TREINTA Y SEIS MILLONES OCHOCIENTOS MIL", 36800000>>,
      <<"siete millones", 7000000>> }

SegmentCases ==
    {<<"segment", o, x, kw, <<"", 0>>, "CENTAVOS">> :
        o \in Openings, x \in SegAmounts, kw \in Keywords}
    \cup {<<"segment", o, x, kw, y, cw>> :
        o \in Openings, x \in SegAmounts, kw \in Keywords,
        y \in CentsPhrases \ {<<"", 0>>}, cw \in CentsWords}
    \cup {<<"segment", o, <<DollarLedAmount, 8000>>, kw, <<"", 0>>, "CENTAVOS">> :
            o \in Openings, kw \in Keywords}

\* phrases as token sequences, and tokens that are neither lexicon words
\* nor currency keywords
BasePhrases ==
    { <<"OCHO">>,
      <<"TREINTA", "Y", "SEIS", "MILLONES", "OCHOCIENTOS", "MIL">>,
      <<"MIL", "CIENTO", "VEINTISIETE", "DÓLARES">> }
ForeignTokens == {"DE", "METROS", "Y", "con", "MILLÓN", "mil,",
                  "MILCOLONES", "EXACTOSDOS"}

\* the tokens joined by single spaces
RECURSIVE JoinAll(_)
JoinAll(tokens) ==
    IF tokens = <<>> THEN "" ELSE Join(Head(tokens), JoinAll(Tail(tokens)))

\* tok inserted after the first k tokens
InsertAt(tokens, k, tok) ==
    SubSeq(tokens, 1, k) \o <<tok>> \o SubSeq(tokens, k + 1, Len(tokens))

\* <<"insert", tokens, k, tok>>
InsertCases ==
    {<<"insert", b, k, tok>> :
        b \in BasePhrases, k \in 0..6, tok \in ForeignTokens}

NoSegments == {"", "En este Despacho se remata sin postura",
               "base de OCHO MIL", "la base de MIL CON VEINTE CENTAVOS"}

----------------------------------------------------------------------------
(* Unit-level specification: one call of text_to_number or of             *)
(* extract_price_and_currency_robust on an input drawn at Init.            *)

Idle ==
    /\ pc = "idle"
    /\ content = ""
    /\ item_type = ""
    /\ price1 = Zero
    /\ currency = ""
    /\ remates = <<>>
    /\ title = ""
    /\ area = ""
    /\ details = <<>>

InitFn ==
    /\ \/ \E c \in PhraseCases :
            call = [fn |-> "text_to_number", arg |-> c[2], case |-> c]
       \/ \E c \in FormCases :
            call = [fn |-> "text_to_number",
                    arg |-> FormPhrase(c[1], c[2], c[3], c[4], c[5]),
                    case |-> <<"form">> \o c]
       \/ \E c \in InsertCases :
            /\ c[3] <= Len(c[2])
            /\ call = [fn |-> "text_to_number",
                       arg |-> JoinAll(InsertAt(c[2], c[3], c[4])),
                       case |-> c]
       \/ \E c \in SegmentCases :
            call = [fn |-> "extract_price_and_currency_robust",
                    arg |-> SegmentText(c[2], c[3][1], c[4], c[5][1], c[6]),
                    case |-> c]
       \/ \E t \in NoSegments :
            call = [fn |-> "extract_price_and_currency_robust",
                    arg |-> t, case |-> <<"nomatch">>]
    /\ ret = <<>>
    /\ Idle
    /\ NoPage

CallTextToNumber ==
    /\ call.fn = "text_to_number"
    /\ ret = <<>>
    /\ ret' = text_to_number(call.arg)
    /\ UNCHANGED <<call, parseVars>>
    /\ UNCHANGED htmlVars

CallExtractPrice ==
    /\ call.fn = "extract_price_and_currency_robust"
    /\ ret = <<>>
    /\ ret' = extract_price_and_currency_robust(call.arg)
    /\ UNCHANGED <<call, parseVars>>
    /\ UNCHANGED htmlVars

NextFn == CallTextToNumber \/ CallExtractPrice

SpecFn == InitFn /\ [][NextFn]_vars

Returned(fn) == call.fn = fn /\ ret # <<>>

----------------------------------------------------------------------------
(* Inputs of parse_auction_entry: notices assembled from clauses *)

\* the sample notice of extract_data.py
SampleText ==
    "En este Despacho Con una base de TREINTA Y SEIS MILLONES OCHOCIENTOS MIL COLONES EXACTOS, libre de gravámenes y anotaciones; sáquese a remate la finca del partido de HEREDIA, matrícula 256578. DERECHO: 001 y 002. NATURALEZA: TERRENO PARA CONSTRUIR. SITUADA EN EL DISTRITO 5-SANTA LUCÍA. CANTÓN 2-BARVA DE LA PROVINCIA DE HEREDIA. FINCA SE ENCUENTRA EN ZONA CATASTRADA. LINDEROS: NORTE: CALLE PUBLICA CON UN FRENTE DE VEINTIÚN PUNTO SESENTA Y SEIS METROS. SUR: PRADOS AZULES DEL ORIENTE S.A. ESTE: PRADOS AZULES DEL ORIENTE S.A. OESTE: FRANCISCO ESQUIVEL VILLALOBOS Y RAFAEL ESQUIVEL VILLALOBOS. MIDE: CUATROCIENTOS CINCUENTA METROS CUADRADOS. PLANO: H-2022681-2017. Para tal efecto, se señalan las catorce horas treinta minutos del veinte de julio de dos mil veintiséis. De no haber postores, el segundo remate se efectuará a las catorce horas treinta minutos del veintiocho de julio de dos mil veintiséis con la base de VEINTISIETE MILLONES SEISCIENTOS MIL COLONES EXACTOS (75% de la base original) y de continuar sin oferentes, para el tercer remate se señalan las catorce horas treinta minutos del cinco de agosto de dos mil veintiséis con la base de NUEVE MILLONES DOSCIENTOS MIL COLONES EXACTOS (25% de la base original). NOTAS: Se le informa a las personas interesadas en participar en la almoneda que en caso de pagar con cheque certificado, el mismo deberá ser emitido a favor de este despacho. Publíquese este edicto dos veces consecutivas, la primera publicación con un mínimo de cinco días de antelación a la fecha fijada para la subasta. Se remata por ordenarse así en PROCESO EJECUCIÓN HIPOTECARIA de GRUPO MUTUAL ALAJUELA - LA VIVIENDA DE AHORRO Y PRESTAMO contra HENRY ARTURO GOMEZ BOLAÑOS EXP:24-010146-1158- CJ JUZGADO DE COBRO DE HEREDIA. Hora y fecha de emisión: dieciséis horas con veintiséis minutos del doce de enero del dos mil veintiséis. Lic. Pedro Ubau Hernández, Juez Tramitador."

FirstDate ==
    "Se señalan las catorce horas del veinte de julio de dos mil veintiséis. "

ColonesHead ==
    "En este Despacho Con una base de TREINTA Y SEIS MILLONES OCHOCIENTOS MIL COLONES EXACTOS, libre de gravámenes; "
DollarsHead ==
    "En este Despacho Con una base de OCHO MIL CIENTO VEINTISIETE DÓLARES CON VEINTIÚN CENTAVOS, "
NoBaseHead == "En este Despacho se ordena el remate; "

\* opening clauses
Heads == {ColonesHead, DollarsHead, NoBaseHead}

\* openings whose base clause begins after the first 300 characters, and
\* whose base clause is cut by them between "base de" and the keyword
LateBaseHead ==
    "PODER JUDICIAL. REMATES. En la puerta exterior de este Despacho, al mejor postor, libre de anotaciones pero soportando las servidumbres trasladadas que constan al tomo 321, asiento 04, y las condiciones de ley; a solicitud de la parte actora y según lo resuelto por este Despacho se ordena lo siguiente: Con una base de SEIS MIL COLONES EXACTOS, libre de gravámenes; "
CutBaseHead ==
    "PODER JUDICIAL. REMATES. En la puerta exterior de este Despacho, al mejor postor, libre de anotaciones pero soportando las servidumbres trasladadas que constan al tomo 321, asiento 04; a solicitud de la parte actora y según lo resuelto por este Despacho se ordena lo siguiente: Con una base de TREINTA Y SEIS MILLONES OCHOCIENTOS MIL DÓLARES EXACTOS, libre de gravámenes; "

LateHeads == {LateBaseHead, CutBaseHead}

\* asset clauses: <<text, names a property marker, names a vehicle marker>>
FincaAsset ==
    <<"sáquese a remate la finca que es TERRENO Situada en EL DISTRITO 5-SANTA LUCÍA, de la provincia de HEREDIA. COLINDA: NORTE CALLE MIDE: CUATROCIENTOS CINCUENTA METROS. ", TRUE, FALSE>>
VehicleAsset ==
    <<"sáquese a remate el vehículo placas BCD123, Marca: TOYOTA, Estilo: YARIS, Año: 2015, Motor: 2NZ. ", FALSE, TRUE>>
BothAsset ==
    <<"sáquese a remate la FINCA con el Vehículo Placa CL-2233, Marca HYUNDAI. ", TRUE, TRUE>>
NoMarkerAsset == <<"sáquese a remate el bien embargado. ", FALSE, FALSE>>
PluralAsset ==
    <<"sáquese a remate las fincas y los lotes. ", FALSE, FALSE>>
MotorcycleAsset ==
    <<"sáquese a remate la finca y la motocicleta. ", TRUE, FALSE>>
LoteAsset ==
    <<"sáquese a remate el LOTE-7 (Terreno). MIDE: CIEN METROS PLANO: 7. ", TRUE, FALSE>>
UnaccentedAsset ==
    <<"sáquese a remate el terreno donde está el vehiculo. ", TRUE, FALSE>>
CarroAsset == <<"sáquese a remate el carro sin chasis. ", FALSE, TRUE>>

DigitsAsset ==
    <<"sáquese a remate la finca. MIDE: 450 METROS CUADRADOS. ", TRUE, FALSE>>
DecimalAsset ==
    <<"sáquese a remate la propiedad. MIDE: DOS MIL QUINIENTOS METROS CON CINCUENTA DECÍMETROS CUADRADOS PLANO: H-7. ", TRUE, FALSE>>

Assets == {FincaAsset, VehicleAsset, BothAsset, NoMarkerAsset, PluralAsset,
           MotorcycleAsset, LoteAsset, UnaccentedAsset, CarroAsset,
           DigitsAsset, DecimalAsset}

\* second-round clauses: complete, without "base de", in upper case,
\* without "(75%"
FullSecond ==
    "El segundo remate se efectuará a las catorce horas del veintiocho de julio de dos mil veintiséis con la base de VEINTISIETE MILLONES SEISCIENTOS MIL COLONES EXACTOS (75% de la base original) "
BaselessSecond ==
    "El segundo remate se efectuará a las catorce horas del veintiocho de julio de dos mil veintiséis, rebajada la base (75% de la base original) "
UpperSecond ==
    "EL SEGUNDO REMATE SE EFECTUARÁ A LAS CATORCE HORAS CON LA BASE DE SEIS MIL COLONES (75% DE LA BASE ORIGINAL) "
UnmarkedSecond ==
    "El segundo remate se efectuará a las catorce horas con la base de SEIS MIL COLONES "

Seconds == {"", FullSecond, BaselessSecond, UpperSecond, UnmarkedSecond}

\* round clauses that name dollars
DollarSecond ==
    "El segundo remate se efectuará a las catorce horas del veintiocho de julio de dos mil veintiséis con la base de SEIS MIL DÓLARES EXACTOS (75% de la base original) "
DollarThird ==
    "y para el tercer remate se señalan las catorce horas del cinco de agosto de dos mil veintiséis con la base de DOS MIL DÓLARES EXACTOS (25% de la base original). "

\* third-round clauses: complete, without "base de", with another verb
FullThird ==
    "y para el tercer remate se señalan las catorce horas del cinco de agosto de dos mil veintiséis con la base de NUEVE MILLONES DOSCIENTOS MIL COLONES EXACTOS (25% de la base original). "
RebateThird ==
    "y para el tercer remate se señalan para las ocho horas del cinco de agosto de dos mil veintiséis con la rebaja de ley (25% de la base original). "
OtherVerbThird ==
    "y para el tercer remate se señalará las ocho horas con la base de DOS MIL COLONES (25% de la base original). "

Thirds == {"", FullThird, RebateThird, OtherVerbThird}

Legal ==
    "Se remata en PROCESO EJECUCIÓN HIPOTECARIA de GRUPO MUTUAL contra HENRY GOMEZ BOLAÑOS EXP:24-010146-1158- CJ JUZGADO DE COBRO DE HEREDIA ."

\* the assets crossed with every head and every pair of round clauses
MainAssets == {FincaAsset, VehicleAsset, NoMarkerAsset}

\* <<"notice", head, asset, second, third>>
NoticeCases ==
    {<<"notice", h, a, s2, s3>> :
        h \in Heads, a \in MainAssets, s2 \in Seconds, s3 \in Thirds}
    \cup {<<"notice", h, a, FullSecond, FullThird>> :
            h \in Heads, a \in Assets}
    \cup {<<"notice", h, FincaAsset, s2, s3>> :
            h \in Heads, s2 \in {FullSecond, DollarSecond},
            s3 \in {"", DollarThird}}
    \cup {<<"notice", h, FincaAsset, s2, s3>> :
            h \in LateHeads, s2 \in {"", FullSecond, BaselessSecond},
            s3 \in {"", FullThird}}

\* texts without any clause of a notice
PlainTexts == {"", " ", "sin datos", "JUZGADO ", "JUZGADO  ", "EXP:",
               "base de (75% (25%",
               "segundo remate se efectuará hoy (75%",
               "tercer remate se señalan hoy (25%",
               "Con una base de MIL COLONES"}

NoticeText(c) ==
    c[2] \o c[3][1] \o (IF c[2] = NoBaseHead THEN "" ELSE FirstDate)
    \o c[4] \o c[5] \o Legal

----------------------------------------------------------------------------
(* Specification of parse_auction_entry *)

Init ==
    /\ \E i \in 1..MaxId :
          \/ \E c \in NoticeCases :
                call = [fn |-> "parse_auction_entry",
                        arg |-> [id |-> i, contenido |-> NoticeText(c)],
                        case |-> c]
          \/ call = [fn |-> "parse_auction_entry",
                     arg |-> [id |-> i, contenido |-> SampleText],
                     case |-> <<"sample">>]
          \/ \E t \in PlainTexts :
                call = [fn |-> "parse_auction_entry",
                        arg |-> [id |-> i, contenido |-> t],
                        case |-> <<"plain", t>>]
    /\ ret = <<>>
    /\ pc = "start"
    /\ content = ""
    /\ item_type = ""
    /\ price1 = Zero
    /\ currency = ""
    /\ remates = <<>>
    /\ title = ""
    /\ area = ""
    /\ details = <<>>
    /\ NoPage

Next ==
    \/ ReadContent
    \/ DetermineType
    \/ FirstAuction
    \/ SecondAuction
    \/ ThirdAuction
    \/ TitleAndSpecs
    \/ LegalInfo
    \/ Return

Spec == Init /\ [][Next]_vars

\* The function body is straight-line code: a started call runs each of its
\* sections in turn until it returns.  This is weak fairness of Next, with
\* the enabling condition of Next written out: every section is guarded by
\* the position alone, so Next is enabled exactly when pc # "done".
SpecLive == Spec /\ ([]<>(pc = "done") \/ []<><<Next>>_vars)

----------------------------------------------------------------------------
(* The script of the page written by generate_html *)

\* the value of a missing argument; no data-type and no label equals it
undefined == "undefined"

itemsPerPage == 10

\* the ticks of the timers of the accordion, in units of 10 ms
openDelay == 1
closeDelay == 30

\* the labels of the filter buttons, in document order
FilterLabels == <<"Todos", "Propiedades", "Vehículos">>

\* the lower-case letter of each upper-case letter
LowerOf ==
    [C \in {UpperOf[l] : l \in LowerSet} |->
        CHOOSE l \in LowerSet : UpperOf[l] = C]

lower_char(c) == IF c \in DOMAIN LowerOf THEN LowerOf[c] ELSE c

\* String.prototype.toLowerCase(), character by character
RECURSIVE str_lower(_)
str_lower(s) ==
    IF Len(s) = 0 THEN ""
    ELSE IF Len(s) = 1 THEN lower_char(s)
    ELSE str_lower(SubSeq(s, 1, Len(s) \div 2))
         \o str_lower(SubSeq(s, Len(s) \div 2 + 1, Len(s)))

Min2(a, b) == IF a < b THEN a ELSE b

Max2(a, b) == IF a > b THEN a ELSE b

\* String.prototype.substring(a, b) for 0 <= a <= b
substring(s, a, b) == SubSeq(s, a + 1, Min2(b, Len(s)))

\* line 632: the text looked for in the label of a filter button
filter_key(type) == IF type = "all" THEN "todos" ELSE substring(type, 0, 4)

\* lines 631-636: the filter buttons left with the class 'active'
active_buttons(type) ==
    {FilterLabels[b] : b \in {b \in DOMAIN FilterLabels :
        str_in(filter_key(type), str_lower(FilterLabels[b]))}}

\* lines 657-661 for searchText of line 657
matchesSearch(item, searchText) ==
    \/ searchText = ""
    \/ str_in(searchText, str_lower(item.header \o " " \o item.panel))

\* line 663, first conjunct
matchesFilter(item, filter) == filter = "all" \/ item.type = filter

\* lines 649-670: the indices pushed to visibleItems, in order
visibleItems(its, searchText, filter) ==
    SelectSeq([i \in 1..Len(its) |-> i],
              LAMBDA i : matchesFilter(its[i], filter)
                         /\ matchesSearch(its[i], searchText))

\* Math.ceil(n / d)
ceil(n, d) == (n + d - 1) \div d

\* line 674
clamp(page, totalPages) ==
    IF page > totalPages THEN Max2(1, totalPages) ELSE page

\* lines 676-692: the items left without the class 'hidden'
shown(visible, startIdx, endIdx) ==
    {visible[k + 1] : k \in {k \in 0..(Len(visible) - 1) :
                                k >= startIdx /\ k < endIdx}}

\* the window left where line 709 puts it
window_start_unshifted(startPage, endPage) == startPage

\* lines 712-714
window_start(startPage, endPage) ==
    IF endPage - startPage < 4 THEN Max2(1, endPage - 4) ELSE startPage

\* lines 716-722 for the final startPage
page_buttons(startPage, endPage, page) ==
    [k \in 1..(endPage - startPage + 1) |->
        [page |-> startPage + k - 1, active |-> startPage + k - 1 = page]]

\* lines 694-736 for startPage of line 709 and endPage of line 710
controls(totalPages, page, startPage, endPage) ==
    [prev |-> [disabled |-> page = 1],
     pages |-> page_buttons(window_start(startPage, endPage), endPage, page),
     next |-> [disabled |-> page = totalPages \/ totalPages = 0],
     info |-> <<page, IF totalPages = 0 THEN 1 ELSE totalPages>>]

\* lines 709-710
controls_from(totalPages, page, startPage) ==
    controls(totalPages, page, startPage, Min2(totalPages, startPage + 4))

\* lines 676-736 for the current page of line 674
render_at(n, visible, totalPages, page) ==
    [currentPage |-> page,
     hidden |-> (1..n) \ shown(visible, (page - 1) * itemsPerPage,
                               (page - 1) * itemsPerPage + itemsPerPage),
     pagination |-> controls_from(totalPages, page, Max2(1, page - 2))]

\* lines 673-674
render_pages(n, visible, totalPages, page) ==
    render_at(n, visible, totalPages, clamp(page, totalPages))

\* render(): the current page, the hidden items and the controls it leaves
render(its, search, filter, page) ==
    render_pages(Len(its), visibleItems(its, str_lower(search), filter),
                 ceil(Len(visibleItems(its, str_lower(search), filter)),
                      itemsPerPage),
                 page)

\* render() with the current page, the filter and the search given
Render(search, filter, page) ==
    \E s \in {search}, f \in {filter}, p \in {page} :
        \E r \in {render(items, s, f, p)} :
            /\ currentPage' = r.currentPage
            /\ hidden' = r.hidden
            /\ pagination' = r.pagination

\* lines 625-638; a missing type raises the TypeError of type.substring at
\* the first filter button
filterItems(type) ==
    /\ currentFilter' = type
    /\ IF type = undefined
       THEN /\ currentPage' = 1
            /\ uncaught' = TRUE
            /\ UNCHANGED <<hidden, filterActive, pagination>>
       ELSE /\ filterActive' = active_buttons(type)
            /\ Render(searchInput', type, 1)
            /\ uncaught' = FALSE

\* lines 640-645
changePage(page) ==
    /\ Render(searchInput, currentFilter, page)
    /\ uncaught' = FALSE
    /\ UNCHANGED <<items, searchInput, currentFilter, filterActive>>

\* lines 568-570: a click on a filter button
FilterClick ==
    /\ UNCHANGED <<items, searchInput>>
    /\ \E type \in {"all", "propiedad", "vehiculo"} :
          /\ filterItems(type)
          /\ event' = <<"filter", type>>
    /\ UNCHANGED <<call, ret, parseVars, accVars>>

\* lines 700-704: a click on the previous-page button
PrevClick ==
    /\ ~pagination.prev.disabled
    /\ currentPage > -MaxBelow
    /\ changePage(currentPage - 1)
    /\ event' = <<"prev", currentPage>>
    /\ UNCHANGED <<call, ret, parseVars, accVars>>

\* lines 716-722: a click on a numbered button
NumberClick ==
    /\ \E b \in DOMAIN pagination.pages :
          /\ changePage(pagination.pages[b].page)
          /\ event' = <<"number", pagination.pages[b].page>>
    /\ UNCHANGED <<call, ret, parseVars, accVars>>

\* lines 724-729: a click on the next-page button
NextClick ==
    /\ ~pagination.next.disabled
    /\ changePage(currentPage + 1)
    /\ event' = <<"next", currentPage>>
    /\ UNCHANGED <<call, ret, parseVars, accVars>>

\* the texts typed in the search box
SearchValues == {"", "HEREDIA", "toyota", "xyz"}

\* line 573: a key released in the search box, which then holds value
SearchKeyup ==
    /\ \E value \in SearchValues : searchInput' = value
    /\ filterItems(undefined)
    /\ event' = <<"keyup", currentFilter>>
    /\ UNCHANGED items
    /\ UNCHANGED <<call, ret, parseVars, accVars>>

\* lines 607-621: a click on the accordion
AccordionClick ==
    /\ clicks < MaxClicks
    /\ clicks' = clicks + 1
    /\ accordion' = ~accordion
    /\ IF panel.maxHeight
       THEN /\ panel' = [panel EXCEPT !.maxHeight = FALSE]
            /\ timers' = Append(timers, [fn |-> "remove_show",
                                         left |-> closeDelay])
       ELSE /\ panel' = [panel EXCEPT !.show = TRUE]
            /\ timers' = Append(timers, [fn |-> "set_maxHeight",
                                         left |-> openDelay])
    /\ UNCHANGED <<call, ret, parseVars, pageVars>>

\* 10 ms pass while no pending timer is due
Tick ==
    /\ timers # <<>>
    /\ \A t \in DOMAIN timers : timers[t].left > 0
    /\ timers' = [t \in DOMAIN timers |->
                    [timers[t] EXCEPT !.left = @ - 1]]
    /\ UNCHANGED <<call, ret, parseVars, pageVars, accordion, panel, clicks>>

\* timers without the one at t
without(t) == SubSeq(timers, 1, t - 1) \o SubSeq(timers, t + 1, Len(timers))

\* lines 613 and 617-619: a due timer runs its callback
Fire ==
    /\ \E t \in DOMAIN timers :
          /\ timers[t].left = 0
          /\ timers' = without(t)
          /\ panel' = IF timers[t].fn = "remove_show"
                      THEN [panel EXCEPT !.show = FALSE]
                      ELSE [panel EXCEPT !.maxHeight = TRUE]
    /\ UNCHANGED <<call, ret, parseVars, pageVars, accordion, clicks>>

----------------------------------------------------------------------------
(* Catalogues and specifications of the page *)

\* the accordion of item i of a catalogue where every k-th item is a vehicle
Item(i, k) ==
    IF k # 0 /\ i % k = 0
    THEN [type |-> "vehiculo", header |-> "Toyota", panel |-> "Placa B12"]
    ELSE [type |-> "propiedad",
          header |-> IF i % 5 = 0 THEN "San José" ELSE "Heredia",
          panel |-> "Terreno"]

Catalogue(n, k) == [i \in 1..n |-> Item(i, k)]

Sizes == {0, 1, 10, 11, 25, MaxItems - 24, MaxItems}

Catalogues == {<<n, k>> : n \in Sizes, k \in {0, 3}}

\* lines 586-603 and 740: the page after init()
Loaded(c) ==
    /\ call = [fn |-> "generate_html", arg |-> c, case |-> <<"page">>]
    /\ ret = <<>>
    /\ Idle
    /\ items = Catalogue(c[1], c[2])
    /\ searchInput = ""
    /\ currentFilter = "all"
    /\ filterActive = {"Todos"}
    /\ \E r \in {render(Catalogue(c[1], c[2]), "", "all", 1)} :
          /\ currentPage = r.currentPage
          /\ hidden = r.hidden
          /\ pagination = r.pagination
    /\ uncaught = FALSE
    /\ event = <<"load">>
    /\ accordion = FALSE
    /\ panel = [show |-> FALSE, maxHeight |-> FALSE]
    /\ timers = <<>>
    /\ clicks = 0

InitPage == \E c \in Catalogues : Loaded(c)

NextPage == FilterClick \/ PrevClick \/ NumberClick \/ NextClick

\* the page used with the filter and page buttons only
SpecPage == InitPage /\ [][NextPage]_vars

NextSearch == NextPage \/ SearchKeyup

InitSearch == \E c \in {c \in Catalogues : c[1] <= MaxSearched} : Loaded(c)

\* the page used with the search box as well
SpecSearch == InitSearch /\ [][NextSearch]_vars

InitAccordion == Loaded(<<1, 0>>)

NextAccordion == AccordionClick \/ Tick \/ Fire

\* one accordion of the page and its timers
SpecAccordion == InitAccordion /\ [][NextAccordion]_vars

----------------------------------------------------------------------------
(* Claims about text_to_number and extract_price_and_currency_robust *)

IsSegmentCase == call.case[1] = "segment"

\* a price of whole units and hundredths
Price(units, hundredths) ==
    [whole |-> units + hundredths \div 100, q |-> 4 * (hundredths % 100)]

\* C6: a scale word with an empty group counts once: parse("MIL") is
\* (1000, CRC) and parse("UN MILLÓN") is (1000000, CRC).
C6_ScaleWordAlone ==
    Returned("text_to_number") =>
        /\ call.arg = "MIL" => ret = <<1000, "CRC">>
        /\ call.arg = "UN MILLÓN" => ret = <<1000000, "CRC">>

C7_Examples ==
    { <<"VEINTISIETE", 27>>, <<"CIEN", 100>>,
      <<"OCHO MIL CIENTO VEINTISIETE", 8127>>, <<"SIETE MILLONES", 7000000>>,
      <<"CUATROCIENTOS CINCUENTA", 450>> }

\* C7: a phrase [A MILLONES] [B MIL] [C], each part a number of 1..999 in
\* lexicon words, B possibly elided, parses to A*1000000 + B*1000 + C; the
\* five examples of the specification have the stated values.
C7_FormValue ==
    Returned("text_to_number") =>
        /\ call.case[1] = "form" =>
              ret[1] = call.case[2] * 1000000 + call.case[3] * 1000
                       + call.case[4]
        /\ \A e \in C7_Examples : call.arg = e[1] => ret[1] = e[2]

C7_Witness ==
    /\ Returned("text_to_number")
    /\ call.case = <<"form", 36, 1, 127, "accented", TRUE>>
    /\ call.arg = "TREINTA Y SEIS MILLONES MIL CIENTO VEINTISIETE"
    /\ ret[1] = 36001127

\* C8: for a segment "base de X <keyword> CON Y CENTAVOS|CÉNTIMOS" the
\* extractor returns value(X) + value(Y)/100, also when the segment opens
\* with "Con una base de".
C8_CentsOfClause ==
    (Returned("extract_price_and_currency_robust") /\ IsSegmentCase
        /\ call.case[5][1] # "")
    => ret[1] = Price(call.case[3][2], call.case[5][2])

\* s contains DÓLARES or DOLARES in any letter case
HasDollarKeyword(s) ==
    \E i \in 1..(Len(s) - 6) : str_upper(SubSeq(s, i, i + 6)) \in DollarKeywords

\* the currency keyword kw is a dollar keyword
IsDollarKeyword(kw) ==
    Len(kw) >= 7 /\ str_upper(SubSeq(kw, 1, 7)) \in DollarKeywords

C10_TextToNumber ==
    Returned("text_to_number") =>
        /\ ret[2] \in {"USD", "CRC"}
        /\ ret[2] = "USD" <=> HasDollarKeyword(call.arg)

\* C10 as stated: text_to_number returns USD exactly for a phrase with a
\* dollar keyword, and the extractor returns USD exactly when the keyword
\* closing the matched "base de" clause is a dollar keyword.
C10_CurrencyByClosingKeyword ==
    /\ C10_TextToNumber
    /\ (Returned("extract_price_and_currency_robust") /\ IsSegmentCase)
        => (ret[2] = "USD" <=> IsDollarKeyword(call.case[4]))

\* C10 amended: text_to_number returns USD exactly for a phrase with a
\* dollar keyword, and the extractor returns USD exactly when the matched
\* amount text followed by the closing keyword contains a dollar keyword
\* (hence whenever the closing keyword is one); no match gives CRC.
C10_CurrencyByPhrase ==
    /\ C10_TextToNumber
    /\ (Returned("extract_price_and_currency_robust") /\ IsSegmentCase)
        => /\ ret[2] = "USD"
                <=> HasDollarKeyword(call.case[3][1] \o " " \o call.case[4])
           /\ IsDollarKeyword(call.case[4]) => ret[2] = "USD"
    /\ (Returned("extract_price_and_currency_robust") /\ ~IsSegmentCase)
        => ret[2] = "CRC"

C10_Witness ==
    /\ Returned("extract_price_and_currency_robust")
    /\ IsSegmentCase
    /\ call.case[3][1] = DollarLedAmount
    /\ call.case[4] = "COLONES"
    /\ ret[2] = "USD"

\* C11: a token that is neither a lexicon word nor a currency keyword,
\* inserted at any position of a phrase, leaves the number returned by
\* text_to_number unchanged.
C11_ForeignTokenIgnored ==
    (Returned("text_to_number") /\ call.case[1] = "insert")
    => ret[1] = text_to_number(JoinAll(call.case[2]))[1]

----------------------------------------------------------------------------
(* Claims about parse_auction_entry *)

\* the call has returned its item
Done == pc = "done" /\ Len(ret) = 1

Notice == call.arg.contenido

\* the text holds "segundo remate se efectuará ", then " (75%"
SecondAnchor ==
    LET h == str_find(Notice, "segundo remate se efectuará ", 1)
    IN  h > 0 /\ str_find(Notice, " (75%",
                          h + Len("segundo remate se efectuará ")) > 0

\* the text holds "tercer remate se señalan ", then " (25%"
ThirdAnchor ==
    LET h == str_find(Notice, "tercer remate se señalan ", 1)
    IN  h > 0 /\ str_find(Notice, " (25%",
                          h + Len("tercer remate se señalan ")) > 0

\* the labels of the returned rounds, in order
Labels == [i \in 1..Len(ret[1].remates) |-> ret[1].remates[i].label]

\* the returned rounds with the given label
RoundsOf(label) == {i \in DOMAIN Labels : Labels[i] = label}

\* p = p1 * n/4 for prices whole + q/400
IsFraction(p, p1, n) ==
    LET d == 4 * p.whole - n * p1.whole
    IN  d \in -4..4 /\ 400 * d = n * p1.q - 4 * p.q

\* C1: a notice matching the second-round anchor gets a round "Segundo
\* Remate" whose price is exactly 0.75 times the price of "Primer Remate",
\* whatever the matched clause contains.
C1_SecondIsThreeQuarters ==
    (Done /\ SecondAnchor) =>
        \E i \in RoundsOf("Segundo Remate") :
            IsFraction(ret[1].remates[i].price, ret[1].remates[1].price, 3)

\* C2 as stated: a notice without the second-round anchor has exactly one
\* round, also when it holds the third-round anchor.
C2_OneRoundWithoutSecond ==
    (Done /\ ~SecondAnchor) => Len(ret[1].remates) = 1

\* C2 amended: a notice without the second-round anchor has no "Segundo
\* Remate"; its rounds are the first alone when the third-round anchor is
\* absent too, and the first followed by the third when it is present.
C2_NoSecondWithoutAnchor ==
    (Done /\ ~SecondAnchor) =>
        Labels = IF ThirdAnchor THEN <<"Primer Remate", "Tercer Remate">>
                 ELSE <<"Primer Remate">>

C2_Witness ==
    /\ Done
    /\ ~SecondAnchor
    /\ ThirdAnchor
    /\ Len(ret[1].remates) = 2
    /\ ret[1].remates[2].label = "Tercer Remate"

\* C3: the rounds number 1 to 3, the first is "Primer Remate", no label
\* occurs twice, the order is First, Second, Third, and the second (third)
\* round is present exactly when the text matches its anchor.
C3_RoundsFollowAnchors ==
    Done =>
        /\ Len(Labels) \in 1..3
        /\ Labels[1] = "Primer Remate"
        /\ \A i, j \in DOMAIN Labels : Labels[i] = Labels[j] => i = j
        /\ \A i \in DOMAIN Labels :
              Labels[i] \in {"Primer Remate", "Segundo Remate",
                             "Tercer Remate"}
        /\ \A i \in RoundsOf("Segundo Remate") :
              \A j \in RoundsOf("Tercer Remate") : i < j
        /\ RoundsOf("Segundo Remate") # {} <=> SecondAnchor
        /\ RoundsOf("Tercer Remate") # {} <=> ThirdAnchor

C3_Witness ==
    /\ Done
    /\ SecondAnchor
    /\ ThirdAnchor
    /\ Labels = <<"Primer Remate", "Segundo Remate", "Tercer Remate">>

\* C4: a notice matching the third-round anchor gets a round "Tercer
\* Remate" whose price is exactly 0.25 times the price of "Primer Remate",
\* with or without a second round.
C4_ThirdIsOneQuarter ==
    (Done /\ ThirdAnchor) =>
        \E i \in RoundsOf("Tercer Remate") :
            IsFraction(ret[1].remates[i].price, ret[1].remates[1].price, 1)

C4_Witness ==
    /\ Done
    /\ ThirdAnchor
    /\ ~SecondAnchor
    /\ ret[1].remates[1].price.q # 0
    /\ ret[1].remates[2].label = "Tercer Remate"
    /\ ret[1].remates[2].price.q # 0

IsSample == call.case = <<"sample">>

\* C5: the sample notice gives first-round price 36800000 in CRC, second
\* 27600000, third 9200000, type "propiedad" and an Expediente containing
\* "24-010146-1158".
C5_SampleNotice ==
    (Done /\ IsSample) =>
        /\ Len(ret[1].remates) = 3
        /\ ret[1].remates[1].price = Price(36800000, 0)
        /\ ret[1].remates[1].currency = "CRC"
        /\ ret[1].remates[2].price = Price(27600000, 0)
        /\ ret[1].remates[3].price = Price(9200000, 0)
        /\ ret[1].type = "propiedad"
        /\ str_in("24-010146-1158", ret[1].details["Expediente"])

C5_Witness ==
    /\ Done
    /\ IsSample
    /\ ret[1].raw = SampleText
    /\ Labels = <<"Primer Remate", "Segundo Remate", "Tercer Remate">>

\* the notice names a whole-word property (vehicle) marker
NamesProperty == IF IsSample THEN TRUE
                 ELSE call.case[1] = "notice" /\ call.case[3][2]
NamesVehicle == call.case[1] = "notice" /\ call.case[3][3]

\* C9: the type is "propiedad" exactly when the text holds a whole-word
\* marker of finca, terreno, lote, propiedad and none of vehículo, carro,
\* moto, chasis, in any letter case; every other text is "vehiculo".
C9_TypeByMarkers ==
    Done =>
        /\ ret[1].type \in {"propiedad", "vehiculo"}
        /\ ret[1].type = "propiedad" <=> (NamesProperty /\ ~NamesVehicle)

C9_Witness ==
    /\ Done
    /\ NamesProperty
    /\ NamesVehicle
    /\ ret[1].type = "vehiculo"

\* the first 300 characters of the notice hold "base de ", in any letter
\* case, followed by a space and COLONES, DÓLARES or DOLARES
BaseIn300 ==
    \E i \in 1..300 :
        /\ i + 7 <= Len(Notice) /\ i + 7 <= 300
        /\ str_upper(SubSeq(Notice, i, i + 7)) = "BASE DE "
        /\ \E j \in (i + 8)..300, kw \in {" COLONES", " DÓLARES", " DOLARES"} :
              /\ j + 7 <= Len(Notice) /\ j + 7 <= 300
              /\ str_upper(SubSeq(Notice, j, j + 7)) = kw

\* C12: when the first 300 characters of the notice hold no match of
\* "base de <amount> <COLONES|DÓLARES|DOLARES>", the first round has price 0
\* and currency CRC, and every second or third round has price 0 too.
C12_NoBaseGivesZero ==
    (Done /\ ~BaseIn300) =>
        /\ ret[1].remates[1].price = Zero
        /\ ret[1].remates[1].currency = "CRC"
        /\ \A i \in DOMAIN ret[1].remates : ret[1].remates[i].price = Zero

\* a base clause cut by the 300th character, with three rounds
C12_Witness ==
    /\ Done
    /\ ~BaseIn300
    /\ call.case[1] = "notice"
    /\ call.case[2] = CutBaseHead
    /\ Len(ret[1].remates) = 3
    /\ ret[1].remates[3].price = Zero

PropertyKeys == {"Naturaleza", "Colindantes", "Expediente", "Juzgado",
                 "Demandante", "Demandado"}
VehicleKeys == {"Placa", "Motor", "Expediente", "Juzgado", "Demandante",
                "Demandado"}

\* C13: the keys of "details" are fixed by the asset type alone, and the
\* value of every key is a string, the matched text or the empty string.
C13_DetailKeysByType ==
    Done =>
        /\ DOMAIN ret[1].details =
              IF ret[1].type = "propiedad" THEN PropertyKeys ELSE VehicleKeys
        /\ \A k \in DOMAIN ret[1].details : ret[1].details[k] \in STRING

\* a property whose text matches neither "es ... Situada" nor "COLINDA: ...
\* MIDE", and a default in its details
C13_Witness ==
    /\ Done
    /\ ret[1].type = "propiedad"
    /\ ~str_in("COLINDA: ", Notice)
    /\ DOMAIN ret[1].details = PropertyKeys
    /\ ret[1].details["Colindantes"] = ""
    /\ ret[1].details["Demandado"] # ""

\* the returned record has every field, with the id and the text of the input
Complete ==
    /\ DOMAIN ret[1] = {"id", "type", "title", "area", "remates", "details",
                        "raw"}
    /\ ret[1].id = call.arg.id
    /\ ret[1].raw = call.arg.contenido

\* C14: for every notice with an id and a text, whatever the text,
\* parse_auction_entry returns, and the record returned has all of id, type,
\* title, area, remates, details, raw, with id and raw those of the input.
C14_ReturnsCompleteRecord == <>[](Done /\ Complete)

\* the empty text returned as a complete record
C14_Witness ==
    /\ Done
    /\ Complete
    /\ call.arg.contenido = ""
    /\ ret[1].raw = ""
    /\ Len(ret[1].remates) = 1

\* asset clauses holding "MIDE: <phrase>" closed by a period or by PLANO,
\* with the integer that text_to_number gives for the phrase
MeasuredAssets ==
    { <<FincaAsset, "450">>, <<LoteAsset, "100">>, <<DigitsAsset, "0">>,
      <<DecimalAsset, "2550">> }

\* C15: a property whose text holds "MIDE: <phrase>" closed by a period or
\* by PLANO has the area "<n> m²", n being the integer that text_to_number
\* gives for the phrase; CUATROCIENTOS CINCUENTA METROS CUADRADOS gives
\* "450 m²".
C15_AreaFromMide ==
    (Done /\ ret[1].type = "propiedad") =>
        /\ IsSample => ret[1].area = "450 m²"
        /\ call.case[1] = "notice" =>
              \A a \in MeasuredAssets :
                  call.case[3] = a[1] => ret[1].area = a[2] \o " m²"

\* a phrase closed by PLANO
C15_Witness ==
    /\ Done
    /\ call.case[1] = "notice"
    /\ call.case[3] = DecimalAsset
    /\ ret[1].type = "propiedad"
    /\ ret[1].area = "2550 m²"

Digits == {"0", "1", "2", "3", "4", "5", "6", "7", "8", "9"}

\* a is "<n> m²" for a non-negative integer n in decimal digits
IsSquareMetres(a) ==
    /\ Len(a) > 3
    /\ SubSeq(a, Len(a) - 2, Len(a)) = " m²"
    /\ \A i \in 1..(Len(a) - 3) : SubSeq(a, i, i) \in Digits

\* C16: the area of every returned record is "--" (every vehicle, and every
\* property without a MIDE clause) or "<n> m²" with n a non-negative integer;
\* "Ver detalle" is never produced.
C16_AreaPlaceholderOrMetres ==
    Done =>
        /\ ret[1].area = "--" \/ IsSquareMetres(ret[1].area)
        /\ ret[1].area # "Ver detalle"
        /\ ret[1].type = "vehiculo" => ret[1].area = "--"
        /\ ~str_in("MIDE: ", Notice) => ret[1].area = "--"

\* a property whose MIDE phrase holds no numeral
C16_Witness ==
    /\ Done
    /\ ret[1].type = "propiedad"
    /\ call.case[1] = "notice"
    /\ call.case[3] = DigitsAsset
    /\ ret[1].area = "0 m²"

\* C17: every round of a notice carries the currency of its first round; a
\* second- or third-round clause naming another currency does not change
\* the currency of that round.
C17_RoundsShareCurrency ==
    Done =>
        \A i \in DOMAIN ret[1].remates :
            ret[1].remates[i].currency = ret[1].remates[1].currency

\* a colones notice whose second and third clauses name dollars
C17_Witness ==
    /\ Done
    /\ call.case[1] = "notice"
    /\ call.case[2] = ColonesHead
    /\ call.case[4] = DollarSecond
    /\ call.case[5] = DollarThird
    /\ Len(ret[1].remates) = 3
    /\ ret[1].remates[2].currency = "CRC"
    /\ ret[1].remates[3].currency = "CRC"


----------------------------------------------------------------------------
(* Claims about the script of the page *)

\* the items of type filter whose text contains the text of the search box
Candidates(filter) ==
    {i \in DOMAIN items :
        /\ filter = "all" \/ items[i].type = filter
        /\ str_in(str_upper(searchInput),
                  str_upper(items[i].header \o " " \o items[i].panel))}

\* the members of S from the from-th to the one before the to-th, counted
\* from 0 in increasing order
Slice(S, from, to) ==
    {i \in S : /\ Cardinality({j \in S : j < i}) >= from
               /\ Cardinality({j \in S : j < i}) < to}

\* C18: a key released in the search box re-renders the list: the handler
\* ends without a script error, the type filter selected before is still
\* selected, and the items displayed are the first page of the items of
\* that type whose header or panel text contains the search text.
C18_SearchKeepsFilter ==
    event[1] = "keyup" =>
        /\ ~uncaught
        /\ currentFilter = event[2]
        /\ hidden = DOMAIN items
                      \ Slice(Candidates(event[2]), 0, itemsPerPage)


\* the number of pages of the items of the selected type
TotalPages == ceil(Cardinality(Candidates(currentFilter)), itemsPerPage)

\* the current page is a page of the list
PageInRange == 1 <= currentPage /\ currentPage <= Max2(1, TotalPages)

\* the items displayed are those of the current page of the filtered list
PageShown ==
    hidden = DOMAIN items
               \ Slice(Candidates(currentFilter),
                       (currentPage - 1) * itemsPerPage,
                       currentPage * itemsPerPage)

\* a click on a filter button leaves the first page
FilterResets == event[1] = "filter" => currentPage = 1

\* the numbered buttons are min(5, TotalPages) consecutive pages
WindowContiguous ==
    /\ Len(pagination.pages) = Min2(5, TotalPages)
    /\ \A b \in DOMAIN pagination.pages :
          /\ pagination.pages[b].page = pagination.pages[1].page + b - 1
          /\ pagination.pages[b].page \in 1..TotalPages
          /\ pagination.pages[b].active
                <=> pagination.pages[b].page = currentPage

\* a numbered button shows the current page
WindowHasCurrent ==
    \E b \in DOMAIN pagination.pages : pagination.pages[b].page = currentPage

\* C19 as stated: after any filter clicks and clicks on enabled page
\* buttons the current page is in 1..max(1, totalPages), exactly the
\* filtered items of that page are displayed, a filter click leaves page 1,
\* and the numbered buttons are a contiguous window of min(5, totalPages)
\* pages that contains the current page.
C19_WindowAlwaysHasCurrent ==
    /\ PageInRange
    /\ PageShown
    /\ FilterResets
    /\ WindowContiguous
    /\ WindowHasCurrent

\* C19: after any filter clicks and clicks on enabled page buttons the
\* current page is in 1..max(1, totalPages), exactly the filtered items of
\* that page are displayed, a filter click leaves page 1, and the numbered
\* buttons are a contiguous window of min(5, totalPages) pages, which
\* contains the current page whenever the filtered list is not empty.
C19_PagesAndWindow ==
    /\ PageInRange
    /\ PageShown
    /\ FilterResets
    /\ WindowContiguous
    /\ TotalPages >= 1 => WindowHasCurrent

\* a numbered button led to page 6 of 8, shown in the window 4..8
C19_Witness ==
    /\ event = <<"number", 6>>
    /\ currentPage = 6
    /\ TotalPages = 8
    /\ pagination.pages[1].page = 4
    /\ Len(pagination.pages) = 5
    /\ Cardinality(DOMAIN items \ hidden) = itemsPerPage


\* the panel is expanded: it has the class 'show' and a max-height
Expanded == panel.show /\ panel.maxHeight

\* C20: the panel follows its button: after any clicks on the accordion
\* and any firing order of the timers, once no timer is pending the panel
\* is expanded exactly when the button carries 'active'.
C20_PanelFollowsButton ==
    timers = <<>> => (Expanded <=> accordion)

====
